---- MODULE Spec2Model ----
(***************************************************************************)
(* Conway's Game of Life (src/src/game.rs): the Game struct, its           *)
(* construction, the neighbour count, the generation update and the        *)
(* frame loop of Game::run, one action per stretch of code between two     *)
(* next_frame().await points (the update is further split cell by cell).   *)
(***************************************************************************)
EXTENDS Integers, Sequences, FiniteSets, TLC

\* ---------------------------------------------------------------- bounds
\* Largest height / width (pixels) and cell size handed to Game::new.
MaxHeight == 3
MaxWidth == 3
MaxCellSize == 2
\* Largest number of Up/Down presses that change the speed in one run.
MaxSpeedChanges == 1
\* Time is counted in ticks of 1/TicksPerSecond s; a frame lasts 1..MaxFrameTicks.
TicksPerSecond == 20
MaxFrameTicks == 2
\* Largest height and width in the runs that compare two update() calls (SpecTwin).
TwinMaxHeight == 2
TwinMaxWidth == 2
\* The runs that follow the speed to its limits (SpecSpeed): largest height and width,
\* and the number of Up/Down presses from DEFAULT_SPEED that bounds the speeds handled.
SpeedMaxHeight == 1
SpeedMaxWidth == 1
MaxSpeedPresses == 14

\* ------------------------------------------------------- program constants
DEFAULT_SPEED == 10
ErrZero == "Neither height, width nor cell size can be 0"

VARIABLES
    args,          \* the arguments Game::new was called with
    result,        \* "Ok", or the Err(String) text Game::new returned
    game,          \* the Game struct (NoGame when construction failed)
    pc,            \* where run() stands
    paused, show_menu, restart, speed, update_timer,   \* locals of run()
    next_cells, upd_x, upd_y,                          \* locals of update()
    gen_cells,     \* history: self.cells at the top of the current loop iteration
    updated,       \* history: update() ran in the current loop iteration
    last_op,       \* history: what the last step did to self.cells
    twin           \* history: one remembered earlier update() (cells before, after)

vars == <<args, result, game, pc, paused, show_menu, restart, speed, update_timer,
          next_cells, upd_x, upd_y, gen_cells, updated, last_op, twin>>

\* ------------------------------------------------------------------ values
NoGame == [ncols |-> 0, nrows |-> 0, cell_size |-> 0, cells |-> <<>>, none |-> TRUE]

\* Mouse positions in pixels, left/above the window and right/below the grid included.
MousePixels == (-1) .. (IF MaxWidth > MaxHeight THEN MaxWidth ELSE MaxHeight)

FrameTimes == 1 .. MaxFrameTicks

\* vec![vec![false; nrows]; ncols]
DeadCells(ncols, nrows) == [i \in 1 .. ncols |-> [j \in 1 .. nrows |-> FALSE]]

\* Every Vec<Vec<bool>> of ncols columns of nrows cells.
Grids(ncols, nrows) == [1 .. ncols -> [1 .. nrows -> BOOLEAN]]

\* self.cells[x][y] with the code's 0-based indices
CellAt(cells, x, y) == cells[x + 1][y + 1]

\* ------------------------------------------------------------ construction
\* Mutant: the width is not validated.
validate_without_width(height, width, cell_size) ==
    IF height = 0 \/ cell_size = 0 THEN ErrZero ELSE "Ok"

validate_start_parameters(height, width, cell_size) ==
    IF height = 0 \/ width = 0 \/ cell_size = 0 THEN ErrZero ELSE "Ok"

\* Mutant: rows and columns derived from the wrong sides.
new_transposed(height, width, cell_size) ==
    LET v == validate_start_parameters(height, width, cell_size) IN
    IF v # "Ok"
    THEN [res |-> v, game |-> NoGame]
    ELSE LET ncols == height \div cell_size
             nrows == width \div cell_size
         IN [res |-> "Ok",
             game |-> [ncols |-> ncols, nrows |-> nrows, cell_size |-> cell_size,
                       cells |-> DeadCells(ncols, nrows)]]

new(height, width, cell_size) ==
    LET v == validate_start_parameters(height, width, cell_size) IN
    IF v # "Ok"
    THEN [res |-> v, game |-> NoGame]
    ELSE LET ncols == width \div cell_size
             nrows == height \div cell_size
         IN [res |-> "Ok",
             game |-> [ncols |-> ncols, nrows |-> nrows, cell_size |-> cell_size,
                       cells |-> DeadCells(ncols, nrows)]]

\* -------------------------------------------------------------- the engine
\* Mutant: a toroidal grid, neighbours beyond an edge wrap around to the other side.
count_neighbors_wrapping(g, x, y) ==
    Cardinality({d \in (-1 .. 1) \X (-1 .. 1) :
        LET nx == (x + d[1]) % g.ncols
            ny == (y + d[2]) % g.nrows
        IN /\ ~(d[1] = 0 /\ d[2] = 0)
           /\ CellAt(g.cells, nx, ny)})

\* Mutant: the test `if self.cells[nx][ny]` negated, the dead neighbours are counted.
count_neighbors_dead(g, x, y) ==
    Cardinality({d \in (-1 .. 1) \X (-1 .. 1) :
        LET nx == x + d[1]
            ny == y + d[2]
        IN /\ ~(nx < 0 \/ nx >= g.ncols)
           /\ ~(ny < 0 \/ ny >= g.nrows)
           /\ ~(nx = x /\ ny = y)
           /\ ~CellAt(g.cells, nx, ny)})

\* count_neighbors: the two nested loops over dx, dy with their three `continue`s.
count_neighbors(g, x, y) ==
    Cardinality({d \in (-1 .. 1) \X (-1 .. 1) :
        LET nx == x + d[1]
            ny == y + d[2]
        IN /\ ~(nx < 0 \/ nx >= g.ncols)
           /\ ~(ny < 0 \/ ny >= g.nrows)
           /\ ~(nx = x /\ ny = y)
           /\ CellAt(g.cells, nx, ny)})

\* matches!((cell, neighbors), (true, 2) | (true, 3) | (false, 3))
rule(cell, neighbors) ==
    \/ cell /\ neighbors = 2
    \/ cell /\ neighbors = 3
    \/ ~cell /\ neighbors = 3

\* (mouse_pos / cell_size as f32) as usize: the cast truncates and saturates at 0.
pixel_to_cell(p, cell_size) == IF p < 0 THEN 0 ELSE p \div cell_size

\* Mutant: the clicked cell is set alive instead of flipped.
toggle_set_alive(g, x, y) ==
    IF x < g.ncols /\ y < g.nrows
    THEN [g EXCEPT !.cells[x + 1][y + 1] = TRUE]
    ELSE g

\* if x < self.ncols && y < self.nrows { self.cells[x][y] = !self.cells[x][y]; }
toggle(g, x, y) ==
    IF x < g.ncols /\ y < g.nrows
    THEN [g EXCEPT !.cells[x + 1][y + 1] = ~g.cells[x + 1][y + 1]]
    ELSE g

toggle_cell_state(g, mouse_pos) ==
    toggle(g, pixel_to_cell(mouse_pos[1], g.cell_size),
              pixel_to_cell(mouse_pos[2], g.cell_size))

\* Mutant: the two ranges of randomize() swapped, nrows columns of ncols cells.
randomize_transposed(g) == Grids(g.nrows, g.ncols)

\* Mutant: randomize() only brings cells to life, a live cell stays alive.
randomize_keeping_alive(g) ==
    {c \in Grids(g.ncols, g.nrows) :
        \A x \in 0 .. g.ncols - 1 : \A y \in 0 .. g.nrows - 1 :
            CellAt(g.cells, x, y) => CellAt(c, x, y)}

\* The grids randomize() can leave in self.cells: ::rand::random() for every cell.
randomize(g) == Grids(g.ncols, g.nrows)

\* ----------------------------------------------------------------- drawing
\* The draw functions, each as what it hands to the screen and the Game it leaves
\* (draw_grid and draw_cells take &self; draw_menu assigns only *paused and *restart).
draw_grid(g) ==
    LET width == g.ncols * g.cell_size
        height == g.nrows * g.cell_size
    IN [game |-> g,
        lines |-> {<<x * g.cell_size, 0, x * g.cell_size, height>> : x \in 0 .. g.ncols}
                  \cup {<<0, y * g.cell_size, width, y * g.cell_size>> : y \in 0 .. g.nrows}]

\* Mutant: a cell is cleared once its rectangle has been drawn.
draw_cells_erasing(g) ==
    [game |-> [g EXCEPT !.cells = DeadCells(g.ncols, g.nrows)],
     rectangles |-> {<<x * g.cell_size, y * g.cell_size, g.cell_size, g.cell_size>> :
                        <<x, y>> \in {q \in (0 .. g.ncols - 1) \X (0 .. g.nrows - 1) :
                                         CellAt(g.cells, q[1], q[2])}}]

draw_cells(g) ==
    [game |-> g,
     rectangles |-> {<<x * g.cell_size, y * g.cell_size, g.cell_size, g.cell_size>> :
                        <<x, y>> \in {q \in (0 .. g.ncols - 1) \X (0 .. g.nrows - 1) :
                                         CellAt(g.cells, q[1], q[2])}}]

\* draw_menu; button is the button of the menu window clicked in this frame.
draw_menu(g, p, button) ==
    [game |-> g,
     restart |-> (button = "restart"),
     paused |-> IF button = "pause" THEN ~p ELSE p]

\* ------------------------------------------------------------------- speed
\* speed is an f32; the model keeps it as the exact fraction n/d in lowest terms.
RECURSIVE Gcd(_, _)
Gcd(a, b) == IF b = 0 THEN a ELSE Gcd(b, a % b)

Frac(n, d) == LET k == Gcd(n, d) IN [n |-> n \div k, d |-> d \div k]

FracLeq(a, b) == a.n * b.d <= b.n * a.d

\* (*speed * 1.5).min(1000.0)
speed_up(s) ==
    LET t == Frac(s.n * 3, s.d * 2) IN
    IF FracLeq(t, Frac(1000, 1)) THEN t ELSE Frac(1000, 1)

\* Mutant: Down divides the speed with no lower limit.
speed_down_unclamped(s) == Frac(s.n * 2, s.d * 3)

\* (*speed / 1.5).max(0.1)
speed_down(s) ==
    LET t == Frac(s.n * 2, s.d * 3) IN
    IF FracLeq(Frac(1, 10), t) THEN t ELSE Frac(1, 10)

\* update_timer >= 1.0 / speed, the timer being t ticks
timer_due(t, s) == t * s.n >= s.d * TicksPerSecond

\* DEFAULT_SPEED after k presses of Up (k > 0) or of Down (k < 0).
RECURSIVE SpeedAfter(_)
SpeedAfter(k) ==
    IF k = 0 THEN Frac(DEFAULT_SPEED, 1)
    ELSE IF k > 0 THEN speed_up(SpeedAfter(k - 1))
    ELSE speed_down(SpeedAfter(k + 1))

\* The speeds within MaxSpeedChanges presses of DEFAULT_SPEED: the model handles an
\* Up or Down press only while the speed stays among them.
SpeedWindow == {SpeedAfter(k) : k \in (-MaxSpeedChanges) .. MaxSpeedChanges}

\* The speeds that at most k presses of Up or Down, in any order, lead to.
RECURSIVE SpeedReach(_)
SpeedReach(k) ==
    IF k = 0 THEN {Frac(DEFAULT_SPEED, 1)}
    ELSE LET r == SpeedReach(k - 1) IN
         r \cup {speed_up(s) : s \in r} \cup {speed_down(s) : s \in r}

SpeedRange == SpeedReach(MaxSpeedPresses)

\* ------------------------------------------------------------------- Init
InitWith(max_height, max_width) ==
    \E height \in 0 .. max_height, width \in 0 .. max_width, cell_size \in 0 .. MaxCellSize :
        LET r == new(height, width, cell_size) IN
        /\ args = [height |-> height, width |-> width, cell_size |-> cell_size]
        /\ result = r.res
        /\ game = r.game
        /\ pc = IF r.res = "Ok" THEN "start_menu" ELSE "exit"
        /\ paused = FALSE
        /\ show_menu = FALSE
        /\ restart = FALSE
        /\ speed = Frac(DEFAULT_SPEED, 1)
        /\ update_timer = 0
        /\ next_cells = <<>>
        /\ upd_x = 0
        /\ upd_y = 0
        /\ gen_cells = <<>>
        /\ updated = FALSE
        /\ last_op = "none"
        /\ twin = <<>>

Init == InitWith(MaxHeight, MaxWidth)

InitTwin == InitWith(TwinMaxHeight, TwinMaxWidth)

InitSpeed == InitWith(SpeedMaxHeight, SpeedMaxWidth)

\* --------------------------------------------------------------- actions
updateVars == <<next_cells, upd_x, upd_y, gen_cells, updated>>
loopVars == <<paused, show_menu, restart, speed, update_timer>>

\* Mutant: Enter in the start menu starts the simulation at once, the selection of
\* the initial state skipped.
ShowStartMenuSkipChoose ==
    /\ pc = "start_menu"
    /\ pc' = "run"
    /\ last_op' = "none"
    /\ UNCHANGED <<args, result, game, loopVars, updateVars, twin>>

\* show_start_menu: the frame in which Enter is pressed ends the menu (a frame
\* without Enter changes nothing); run() goes on into choose_initial_state.
ShowStartMenuEnter ==
    /\ pc = "start_menu"
    /\ pc' = "choose_body"
    /\ last_op' = "none"
    /\ UNCHANGED <<args, result, game, loopVars, updateVars, twin>>

\* choose_initial_state, one pass of the loop body up to next_frame().await:
\* draw, toggle on a left click, randomize on 'R' (which overwrites what a click of
\* the same frame toggled, so the mouse position is drawn only for a click alone).
\* g0 is the Game after the drawing, g1 the Game after the click.
ChooseBody ==
    /\ pc = "choose_body"
    /\ \E g0 \in {draw_cells(draw_grid(game).game).game} :
       \E click \in BOOLEAN, r \in BOOLEAN :
       \E mouse_pos \in (IF click /\ ~r THEN MousePixels \X MousePixels ELSE {<<0, 0>>}) :
       \E g1 \in {IF click THEN toggle_cell_state(g0, mouse_pos) ELSE g0} :
       \E rnd \in (IF r THEN randomize(g1) ELSE {g1.cells}) :
          /\ game' = [g1 EXCEPT !.cells = rnd]
          /\ last_op' = IF r THEN "randomize"
                        ELSE IF ~click THEN "none"
                        ELSE IF g1 = g0 THEN "click_outside" ELSE "toggle"
    /\ pc' = "choose"
    /\ UNCHANGED <<args, result, loopVars, updateVars, twin>>

\* choose_initial_state after next_frame().await, Enter not pressed: loop again.
ChooseAgain ==
    /\ pc = "choose"
    /\ pc' = "choose_body"
    /\ last_op' = "none"
    /\ UNCHANGED <<args, result, game, loopVars, updateVars, twin>>

\* Mutant: the end of a restart starts the session afresh, paused left as it was and
\* speed and timer back at their first values.
ChooseEnterStartsAfresh ==
    /\ pc = "choose"
    /\ pc' = "run"
    /\ paused' = paused
    /\ show_menu' = FALSE
    /\ restart' = FALSE
    /\ game' = IF restart THEN draw_cells(draw_grid(game).game).game ELSE game
    /\ speed' = Frac(DEFAULT_SPEED, 1)
    /\ update_timer' = 0
    /\ last_op' = "none"
    /\ UNCHANGED <<args, result, updateVars, twin>>

\* Mutant: the simulation starts paused, to be set going with Space.
ChooseEnterStartsPaused ==
    /\ pc = "choose"
    /\ pc' = "run"
    /\ paused' = ~restart
    /\ show_menu' = FALSE
    /\ restart' = FALSE
    /\ IF restart
       THEN /\ game' = draw_cells(draw_grid(game).game).game
            /\ UNCHANGED <<speed, update_timer>>
       ELSE /\ game' = game
            /\ speed' = Frac(DEFAULT_SPEED, 1)
            /\ update_timer' = 0
    /\ last_op' = "none"
    /\ UNCHANGED <<args, result, updateVars, twin>>

\* choose_initial_state after next_frame().await, Enter pressed: return to run(),
\* either to its lines 90-94 (first call) or into restart's caller, lines 110-118,
\* which draws the frame.
ChooseEnter ==
    /\ pc = "choose"
    /\ pc' = "run"
    /\ paused' = FALSE
    /\ show_menu' = FALSE
    /\ restart' = FALSE
    /\ IF restart
       THEN /\ game' = draw_cells(draw_grid(game).game).game
            /\ UNCHANGED <<speed, update_timer>>
       ELSE /\ game' = game
            /\ speed' = Frac(DEFAULT_SPEED, 1)
            /\ update_timer' = 0
    /\ last_op' = "none"
    /\ UNCHANGED <<args, result, updateVars, twin>>

\* Mutant: Space pauses the game but never resumes it.
check_keys_space_pauses(p, s, sm, space, up, down, m) ==
    LET s1 == IF up THEN speed_up(s) ELSE s IN
    [paused |-> IF space THEN TRUE ELSE p,
     speed |-> IF down THEN speed_down(s1) ELSE s1,
     show_menu |-> IF m THEN ~sm ELSE sm]

\* check_keys
check_keys(p, s, sm, space, up, down, m) ==
    LET s1 == IF up THEN speed_up(s) ELSE s IN
    [paused |-> IF space THEN ~p ELSE p,
     speed |-> IF down THEN speed_down(s1) ELSE s1,
     show_menu |-> IF m THEN ~sm ELSE sm]

\* Mutant: the timer runs and update() is called whether the game is paused or not.
RunKeysIgnorePause(window) ==
    /\ pc = "run"
    /\ \E space \in BOOLEAN, up \in BOOLEAN, down \in BOOLEAN, m \in BOOLEAN :
       \E frame_time \in FrameTimes :
          LET k == check_keys(paused, speed, show_menu, space, up, down, m)
              t == update_timer + frame_time
          IN /\ up => speed_up(speed) \in window
             /\ down => k.speed \in window
             /\ paused' = k.paused
             /\ speed' = k.speed
             /\ show_menu' = k.show_menu
             /\ update_timer' = t
             /\ IF timer_due(t, k.speed)
                THEN /\ pc' = "update"
                     /\ next_cells' = DeadCells(game.ncols, game.nrows)
                ELSE /\ pc' = "menu"
                     /\ UNCHANGED next_cells
    /\ gen_cells' = game.cells
    /\ last_op' = "none"
    /\ UNCHANGED <<args, result, game, restart, upd_x, upd_y, updated, twin>>

\* Mutant: the run loop also polls the mouse, a left click toggling the cell under it
\* as in the selection of the initial state.
RunKeysClickToggles(window) ==
    /\ pc = "run"
    /\ \E space \in BOOLEAN, up \in BOOLEAN, down \in BOOLEAN, m \in BOOLEAN :
       \E frame_time \in FrameTimes :
          LET k == check_keys(paused, speed, show_menu, space, up, down, m)
              t == update_timer + frame_time
          IN /\ up => speed_up(speed) \in window
             /\ down => k.speed \in window
             /\ paused' = k.paused
             /\ speed' = k.speed
             /\ show_menu' = k.show_menu
             /\ IF ~k.paused
                THEN /\ update_timer' = t
                     /\ IF timer_due(t, k.speed)
                        THEN /\ pc' = "update"
                             /\ next_cells' = DeadCells(game.ncols, game.nrows)
                        ELSE /\ pc' = "menu"
                             /\ UNCHANGED next_cells
                ELSE /\ pc' = "menu"
                     /\ UNCHANGED <<update_timer, next_cells>>
    /\ \E click \in BOOLEAN :
          game' = IF click THEN toggle_cell_state(game, <<0, 0>>) ELSE game
    /\ gen_cells' = game.cells
    /\ last_op' = "none"
    /\ UNCHANGED <<args, result, restart, upd_x, upd_y, updated, twin>>

\* Mutant: an open menu holds the simulation as a pause does.
RunKeysMenuPauses(window) ==
    /\ pc = "run"
    /\ \E space \in BOOLEAN, up \in BOOLEAN, down \in BOOLEAN, m \in BOOLEAN :
       \E frame_time \in FrameTimes :
          LET k == check_keys(paused, speed, show_menu, space, up, down, m)
              t == update_timer + frame_time
          IN /\ up => speed_up(speed) \in window
             /\ down => k.speed \in window
             /\ paused' = k.paused
             /\ speed' = k.speed
             /\ show_menu' = k.show_menu
             /\ IF ~k.paused /\ ~k.show_menu
                THEN /\ update_timer' = t
                     /\ IF timer_due(t, k.speed)
                        THEN /\ pc' = "update"
                             /\ next_cells' = DeadCells(game.ncols, game.nrows)
                        ELSE /\ pc' = "menu"
                             /\ UNCHANGED next_cells
                ELSE /\ pc' = "menu"
                     /\ UNCHANGED <<update_timer, next_cells>>
    /\ gen_cells' = game.cells
    /\ last_op' = "none"
    /\ UNCHANGED <<args, result, game, restart, upd_x, upd_y, updated, twin>>

\* run(), top of a loop iteration: check_keys, the timer, and the decision to update.
\* An Up or Down press is handled only while the speed stays in the set window.
RunKeysIn(window) ==
    /\ pc = "run"
    /\ \E space \in BOOLEAN, up \in BOOLEAN, down \in BOOLEAN, m \in BOOLEAN :
       \E frame_time \in FrameTimes :
          LET k == check_keys(paused, speed, show_menu, space, up, down, m)
              t == update_timer + frame_time
          IN /\ up => speed_up(speed) \in window
             /\ down => k.speed \in window
             /\ paused' = k.paused
             /\ speed' = k.speed
             /\ show_menu' = k.show_menu
             /\ IF ~k.paused
                THEN /\ update_timer' = t
                     /\ IF timer_due(t, k.speed)
                        THEN /\ pc' = "update"
                             /\ next_cells' = DeadCells(game.ncols, game.nrows)
                        ELSE /\ pc' = "menu"
                             /\ UNCHANGED next_cells
                ELSE /\ pc' = "menu"
                     /\ UNCHANGED <<update_timer, next_cells>>
    /\ gen_cells' = game.cells
    /\ last_op' = "none"
    /\ UNCHANGED <<args, result, game, restart, upd_x, upd_y, updated, twin>>

RunKeys == RunKeysIn(SpeedWindow)

\* Mutant: every finished column of next_cells is published to self.cells at once.
UpdateCellPublishColumn ==
    /\ pc = "update"
    /\ upd_x < game.ncols /\ upd_y < game.nrows
    /\ LET cell == CellAt(game.cells, upd_x, upd_y)
           neighbors == count_neighbors(game, upd_x, upd_y)
           nc == [next_cells EXCEPT ![upd_x + 1][upd_y + 1] = rule(cell, neighbors)]
       IN /\ next_cells' = nc
          /\ IF upd_y + 1 < game.nrows
             THEN upd_y' = upd_y + 1 /\ upd_x' = upd_x /\ UNCHANGED game
             ELSE /\ upd_y' = 0 /\ upd_x' = upd_x + 1
                  /\ game' = [game EXCEPT !.cells[upd_x + 1] = nc[upd_x + 1]]
    /\ last_op' = "none"
    /\ UNCHANGED <<args, result, pc, loopVars, gen_cells, updated, twin>>

\* Mutant: the new value is also written into self.cells at once (no second buffer).
UpdateCellInPlace ==
    /\ pc = "update"
    /\ upd_x < game.ncols /\ upd_y < game.nrows
    /\ LET cell == CellAt(game.cells, upd_x, upd_y)
           neighbors == count_neighbors(game, upd_x, upd_y)
       IN /\ next_cells' = [next_cells EXCEPT ![upd_x + 1][upd_y + 1] = rule(cell, neighbors)]
          /\ game' = [game EXCEPT !.cells[upd_x + 1][upd_y + 1] = rule(cell, neighbors)]
    /\ IF upd_y + 1 < game.nrows
       THEN upd_y' = upd_y + 1 /\ upd_x' = upd_x
       ELSE upd_y' = 0 /\ upd_x' = upd_x + 1
    /\ last_op' = "none"
    /\ UNCHANGED <<args, result, pc, loopVars, gen_cells, updated, twin>>

\* update(), one pass of the inner loop body: the cell (x, y).
UpdateCell ==
    /\ pc = "update"
    /\ upd_x < game.ncols /\ upd_y < game.nrows
    /\ LET cell == CellAt(game.cells, upd_x, upd_y)
           neighbors == count_neighbors(game, upd_x, upd_y)
       IN next_cells' = [next_cells EXCEPT ![upd_x + 1][upd_y + 1] = rule(cell, neighbors)]
    /\ IF upd_y + 1 < game.nrows
       THEN upd_y' = upd_y + 1 /\ upd_x' = upd_x
       ELSE upd_y' = 0 /\ upd_x' = upd_x + 1
    /\ last_op' = "none"
    /\ UNCHANGED <<args, result, game, pc, loopVars, gen_cells, updated, twin>>

\* Mutant: the simulation freezes under the menu, the new generation is dropped
\* when the menu shows.
CommitUnlessMenu ==
    /\ pc = "update"
    /\ upd_x >= game.ncols \/ game.nrows = 0
    /\ game' = IF show_menu THEN game ELSE [game EXCEPT !.cells = next_cells]
    /\ update_timer' = 0
    /\ next_cells' = <<>>
    /\ upd_x' = 0
    /\ upd_y' = 0
    /\ updated' = TRUE
    /\ pc' = "menu"
    /\ last_op' = "update"
    /\ UNCHANGED <<args, result, paused, show_menu, restart, speed, gen_cells>>

\* Mutant: the timer keeps what it holds beyond the interval (in whole ticks), to be
\* caught up by the next iterations.
CommitKeepsExcess ==
    /\ pc = "update"
    /\ upd_x >= game.ncols \/ game.nrows = 0
    /\ game' = [game EXCEPT !.cells = next_cells]
    /\ update_timer' = update_timer - ((speed.d * TicksPerSecond) \div speed.n)
    /\ next_cells' = <<>>
    /\ upd_x' = 0
    /\ upd_y' = 0
    /\ updated' = TRUE
    /\ pc' = "menu"
    /\ last_op' = "update"
    /\ UNCHANGED <<args, result, paused, show_menu, restart, speed, gen_cells>>

\* update(), after the loops: self.cells = next_cells; then update_timer = 0.0.
Commit ==
    /\ pc = "update"
    /\ upd_x >= game.ncols \/ game.nrows = 0
    /\ game' = [game EXCEPT !.cells = next_cells]
    /\ update_timer' = 0
    /\ next_cells' = <<>>
    /\ upd_x' = 0
    /\ upd_y' = 0
    /\ updated' = TRUE
    /\ pc' = "menu"
    /\ last_op' = "update"
    /\ UNCHANGED <<args, result, paused, show_menu, restart, speed, gen_cells>>

UpdateCommit == Commit /\ UNCHANGED twin

\* The same step, remembered: the first update() kept to compare later ones with.
UpdateCommitRemember ==
    /\ twin = <<>>
    /\ Commit
    /\ twin' = [before |-> gen_cells, after |-> game'.cells, show_menu |-> show_menu,
                speed |-> speed]

\* Mutant: a restart goes back to the start menu, as if run() were called afresh.
RunMenuRestartAtStartMenu ==
    /\ pc = "menu"
    /\ \E button \in (IF show_menu THEN {"none", "restart", "pause"} ELSE {"none"}) :
          LET menu == IF show_menu THEN draw_menu(game, paused, button)
                      ELSE [game |-> game, restart |-> restart, paused |-> paused]
          IN /\ paused' = menu.paused
             /\ restart' = menu.restart
             /\ IF menu.restart
                THEN /\ game' = [menu.game EXCEPT
                                    !.cells = DeadCells(menu.game.ncols, menu.game.nrows)]
                     /\ pc' = "start_menu"
                     /\ last_op' = "restart"
                ELSE /\ game' = draw_cells(draw_grid(menu.game).game).game
                     /\ pc' = "run"
                     /\ last_op' = "none"
    /\ updated' = FALSE
    /\ gen_cells' = <<>>
    /\ UNCHANGED <<args, result, show_menu, speed, update_timer, next_cells, upd_x, upd_y, twin>>

\* run(), rest of the iteration: draw_menu when the menu shows, restart() up to its
\* call of choose_initial_state, or else the drawing and next_frame().await.
RunMenu ==
    /\ pc = "menu"
    /\ \E button \in (IF show_menu THEN {"none", "restart", "pause"} ELSE {"none"}) :
          LET menu == IF show_menu THEN draw_menu(game, paused, button)
                      ELSE [game |-> game, restart |-> restart, paused |-> paused]
          IN /\ paused' = menu.paused
             /\ restart' = menu.restart
             /\ IF menu.restart
                THEN /\ game' = [menu.game EXCEPT
                                    !.cells = DeadCells(menu.game.ncols, menu.game.nrows)]
                     /\ pc' = "choose_body"
                     /\ last_op' = "restart"
                ELSE /\ game' = draw_cells(draw_grid(menu.game).game).game
                     /\ pc' = "run"
                     /\ last_op' = "none"
    /\ updated' = FALSE
    /\ gen_cells' = <<>>
    /\ UNCHANGED <<args, result, show_menu, speed, update_timer, next_cells, upd_x, upd_y, twin>>

Next ==
    \/ ShowStartMenuEnter
    \/ ChooseBody
    \/ ChooseAgain
    \/ ChooseEnter
    \/ RunKeys
    \/ UpdateCell
    \/ UpdateCommit
    \/ RunMenu

Spec == Init /\ [][Next]_vars

\* The runs of Spec on smaller grids, one update() of each run remembered in twin.
NextTwin ==
    \/ Next
    \/ UpdateCommitRemember

SpecTwin == InitTwin /\ [][NextTwin]_vars

\* The runs of Spec on the smaller grids, nothing remembered.
SpecSmall == InitTwin /\ [][Next]_vars

\* The runs on the smallest grids in which Up and Down are handled over SpeedRange,
\* far enough for both limits of the speed to be met and left again.
RunKeysWide == RunKeysIn(SpeedRange)

NextSpeed ==
    \/ ShowStartMenuEnter
    \/ ChooseBody
    \/ ChooseAgain
    \/ ChooseEnter
    \/ RunKeysWide
    \/ UpdateCell
    \/ UpdateCommit
    \/ RunMenu

SpecSpeed == InitSpeed /\ [][NextSpeed]_vars

\* ---------------------------------------------------------------- claims
Abs(i) == IF i < 0 THEN -i ELSE i

\* The positions of the grid in the Moore neighbourhood of (x, y).
MooreInGrid(x, y) ==
    {p \in (0 .. game.ncols - 1) \X (0 .. game.nrows - 1) :
        /\ p # <<x, y>>
        /\ Abs(p[1] - x) <= 1
        /\ Abs(p[2] - y) <= 1}

\* The live Moore neighbours of (x, y) in the grid c.
LiveAround(c, x, y) == Cardinality({p \in MooreInGrid(x, y) : CellAt(c, p[1], p[2])})

AllDead(c) == \A i \in DOMAIN c : \A j \in DOMAIN c[i] : ~c[i][j]

JustUpdated == pc = "menu" /\ updated

\* C1: after one update() every cell (x, y) is alive iff it was alive with 2 or 3
\* live Moore neighbours or dead with exactly 3, all counts being taken from the
\* grid as it was before the call.
C1_UpdateRule ==
    JustUpdated =>
        \A x \in 0 .. game.ncols - 1 : \A y \in 0 .. game.nrows - 1 :
            LET was == CellAt(gen_cells, x, y)
                n == LiveAround(gen_cells, x, y)
            IN CellAt(game.cells, x, y) <=> ((was /\ n \in {2, 3}) \/ (~was /\ n = 3))

\* C1 witness: an update() of a 3x3 grid in which a cell survived, a cell died and
\* a cell was born.
C1_Witness ==
    /\ JustUpdated
    /\ game.ncols = 3 /\ game.nrows = 3
    /\ \E p \in (0 .. 2) \X (0 .. 2) : CellAt(gen_cells, p[1], p[2]) /\ CellAt(game.cells, p[1], p[2])
    /\ \E p \in (0 .. 2) \X (0 .. 2) : CellAt(gen_cells, p[1], p[2]) /\ ~CellAt(game.cells, p[1], p[2])
    /\ \E p \in (0 .. 2) \X (0 .. 2) : ~CellAt(gen_cells, p[1], p[2]) /\ CellAt(game.cells, p[1], p[2])

\* C2: for every in-range cell, count_neighbors is the number of live cells among
\* the Moore neighbours that lie inside the grid (no wraparound, the cell itself not
\* counted); it is at most 8, at most 3 in a corner and at most 5 on an edge.
C2_CountNeighbors ==
    result = "Ok" =>
        \A x \in 0 .. game.ncols - 1 : \A y \in 0 .. game.nrows - 1 :
            LET n == count_neighbors(game, x, y)
                onX == x = 0 \/ x = game.ncols - 1
                onY == y = 0 \/ y = game.nrows - 1
            IN /\ n = LiveAround(game.cells, x, y)
               /\ 0 <= n /\ n <= 8
               /\ ((onX /\ onY) => n <= 3)
               /\ ((onX \/ onY) => n <= 5)

\* C2 witness: update() has just counted the neighbours of the centre of a live
\* 3x3 grid: 8 of them, and 3 around a corner, 5 around an edge cell.
C2_Witness ==
    /\ pc = "update"
    /\ game.ncols = 3 /\ game.nrows = 3
    /\ upd_x = 1 /\ upd_y = 2
    /\ count_neighbors(game, 1, 1) = 8
    /\ count_neighbors(game, 0, 0) = 3
    /\ count_neighbors(game, 1, 0) = 5

\* C3: construction fails exactly when height, width or cell_size is 0, with the
\* error text of validate_start_parameters; on failure no Game exists and the run
\* loop is never entered.
C3_ConstructionError ==
    /\ ((result # "Ok") <=> (args.height = 0 \/ args.width = 0 \/ args.cell_size = 0))
    /\ result # "Ok" => (result = ErrZero /\ game = NoGame /\ pc = "exit")
    /\ result = "Ok" => (game # NoGame /\ pc # "exit")

\* C3 witness: a construction refused for its cell size alone.
C3_Witness ==
    /\ result = ErrZero
    /\ args.cell_size = 0 /\ args.height > 0 /\ args.width > 0
    /\ pc = "exit"

\* C4: every Game that Game::new returns has nrows >= 1 and ncols >= 1.
C4_NonEmptyGrid == result = "Ok" => game.ncols >= 1 /\ game.nrows >= 1

\* C5: for valid parameters the constructed grid has width / cell_size columns of
\* height / cell_size cells (truncating division), nrows * ncols cells in all, and
\* every cell is dead.
C5_ConstructedGrid ==
    (result = "Ok" /\ pc = "start_menu") =>
        /\ game.ncols = args.width \div args.cell_size
        /\ game.nrows = args.height \div args.cell_size
        /\ Len(game.cells) = game.ncols
        /\ \A i \in 1 .. game.ncols : Len(game.cells[i]) = game.nrows
        /\ Cardinality({p \in (1 .. Len(game.cells)) \X (1 .. game.nrows) :
                            p[2] \in DOMAIN game.cells[p[1]]}) = game.nrows * game.ncols
        /\ AllDead(game.cells)

\* C5 witness: a construction whose divisions truncate, 3 / 2 = 1 column and 2 / 2 =
\* 1 row.
C5_Witness ==
    /\ pc = "start_menu"
    /\ args.width = 3 /\ args.height = 2 /\ args.cell_size = 2
    /\ game.ncols = 1 /\ game.nrows = 1
    /\ game.cells = <<(<<FALSE>>)>>

\* Cell coordinates as toggle receives them (usize), one past the largest grid included.
CellCoords == 0 .. ((IF MaxWidth > MaxHeight THEN MaxWidth ELSE MaxHeight) + 1)

\* C6: toggle at (x, y) flips exactly that cell when x < ncols and y < nrows, every
\* other cell staying as it was; out of bounds it leaves the whole grid unchanged,
\* and the cell it indexes always exists (no panic).
C6_ToggleFrame ==
    result = "Ok" =>
        \A x \in CellCoords : \A y \in CellCoords :
            LET g == toggle(game, x, y) IN
            IF x < game.ncols /\ y < game.nrows
            THEN /\ x + 1 \in DOMAIN game.cells /\ y + 1 \in DOMAIN game.cells[x + 1]
                 /\ CellAt(g.cells, x, y) = ~CellAt(game.cells, x, y)
                 /\ \A p \in (0 .. game.ncols - 1) \X (0 .. game.nrows - 1) :
                        p # <<x, y>> => CellAt(g.cells, p[1], p[2]) = CellAt(game.cells, p[1], p[2])
                 /\ DOMAIN g.cells = DOMAIN game.cells
                 /\ \A i \in DOMAIN g.cells : DOMAIN g.cells[i] = DOMAIN game.cells[i]
                 /\ [g EXCEPT !.cells = game.cells] = game
            ELSE g = game

\* C6 witness: a click has just toggled a live cell of a 3x2 grid dead, leaving
\* another one alive.
C6_Witness ==
    /\ pc = "choose" /\ last_op = "toggle"
    /\ game.ncols = 3 /\ game.nrows = 2
    /\ ~CellAt(game.cells, 2, 1)
    /\ CellAt(game.cells, 0, 0)
    /\ Cardinality({p \in (0 .. 2) \X (0 .. 1) : CellAt(game.cells, p[1], p[2])}) = 1

InRunLoop == pc \in {"run", "update", "menu"}

\* C7: an all-dead grid stays all-dead through any number of update() calls: no step
\* of the run loop, update() included, brings a cell of an all-dead grid to life.
C7_DeadStaysDead ==
    [][(InRunLoop /\ AllDead(game.cells)) => AllDead(game'.cells)]_vars

\* C7 witness: update() has just run on an all-dead 3x3 grid and left it all-dead.
C7_Witness ==
    /\ JustUpdated
    /\ game.ncols = 3 /\ game.nrows = 3
    /\ AllDead(gen_cells)
    /\ AllDead(game.cells)

\* C8: the dimensions never change after construction: whatever toggle, randomize,
\* update and restart did, cells has ncols columns of nrows cells each, and ncols and
\* nrows are the values they were constructed with.
C8_DimensionsFixed ==
    result = "Ok" =>
        /\ game.ncols = args.width \div args.cell_size
        /\ game.nrows = args.height \div args.cell_size
        /\ game.cell_size = args.cell_size
        /\ DOMAIN game.cells = 1 .. game.ncols
        /\ \A i \in DOMAIN game.cells : DOMAIN game.cells[i] = 1 .. game.nrows

\* C8 witness: a 3x2 grid randomized inside a restart from the run loop.
C8_Witness ==
    /\ pc = "choose" /\ last_op = "randomize" /\ restart
    /\ game.ncols = 3 /\ game.nrows = 2
    /\ CellAt(game.cells, 2, 1)

\* The next generation of the grid c, by the rule of the spec.
NextGeneration(c) ==
    [i \in 1 .. game.ncols |-> [j \in 1 .. game.nrows |->
        LET n == LiveAround(c, i - 1, j - 1) IN
        (c[i][j] /\ n \in {2, 3}) \/ (~c[i][j] /\ n = 3)]]

\* C9: update() replaces the visible grid atomically: while the next generation is
\* computed the visible cells are the old generation, and the grid the iteration
\* hands to draw_cells is the old generation (no update) or the complete new one.
C9_AtomicReplace ==
    /\ (pc = "update" => game.cells = gen_cells)
    /\ (pc = "menu" => \/ (~updated /\ game.cells = gen_cells)
                       \/ (updated /\ game.cells = NextGeneration(gen_cells)))

\* C9 witness: update() is half way through a 3x3 grid whose next generation
\* differs from it in computed and in not yet computed cells.
C9_Witness ==
    /\ pc = "update"
    /\ game.ncols = 3 /\ game.nrows = 3
    /\ upd_x = 1 /\ upd_y = 1
    /\ next_cells[1] # game.cells[1]
    /\ NextGeneration(game.cells)[3] # game.cells[3]

\* C10: the generation transition depends on the current cells alone: an update()
\* of the same cells as a remembered earlier update(), whatever happened in between
\* and whatever show_menu, speed and the timer are, leaves the same cells.
C10_Deterministic ==
    (JustUpdated /\ twin # <<>> /\ twin.before = gen_cells) => game.cells = twin.after

\* C10 witness: a second update() of the same cells as the remembered one, which
\* changes them, under another speed and another menu state.
C10_Witness ==
    /\ JustUpdated
    /\ twin # <<>>
    /\ twin.before = gen_cells
    /\ game.cells # gen_cells
    /\ ~AllDead(game.cells)
    /\ twin.show_menu # show_menu
    /\ twin.speed # speed

\* C11: toggle applied twice to the same coordinates gives back the grid it started
\* from, for every grid and every (x, y), in bounds or out of bounds.
C11_ToggleInvolution ==
    result = "Ok" =>
        \A x \in CellCoords : \A y \in CellCoords :
            toggle(toggle(game, x, y), x, y) = game

\* C11 witness: clicks have toggled cells of a 3x3 grid and the last one has toggled
\* the only live cell back, the grid being all-dead again as it was constructed.
C11_Witness ==
    /\ pc = "choose" /\ last_op = "toggle" /\ ~restart
    /\ game.ncols = 3 /\ game.nrows = 3
    /\ AllDead(game.cells)

\* The selection of the initial state, and its first run (before Running was ever
\* entered: restart is set only while restart() runs the selection again).
Choosing == pc \in {"choose_body", "choose"}
FirstSelection == (pc = "start_menu" \/ Choosing) /\ ~restart

\* C12: the phases follow StartMenu -> ChooseInitialState -> Running: a step leaves
\* the start menu only into the selection and leaves the selection only into
\* Running, and that from the point after next_frame where Enter is polled; the time
\* before Running is never entered again and no step of it starts or performs
\* update(), the grid changing there only by a click's toggle or by 'R'; and the
\* selection can always go round again or end on Enter.
C12_PhaseOrder ==
    [][/\ (pc = "start_menu") => (pc' \in {"start_menu", "choose_body"} /\ game' = game)
       /\ Choosing => (Choosing' \/ (pc = "choose" /\ pc' = "run" /\ game' = game))
       /\ FirstSelection' => FirstSelection
       /\ FirstSelection =>
             /\ pc' # "update" /\ ~updated' /\ last_op' # "update"
             /\ (game' # game) => (last_op' \in {"toggle", "randomize"})
       /\ (Choosing /\ last_op' = "toggle") =>
             \E x \in 0 .. game.ncols - 1 : \E y \in 0 .. game.nrows - 1 :
                game' = toggle(game, x, y)
       /\ (Choosing /\ last_op' = "randomize") => (game'.cells \in randomize(game))
       /\ (pc = "choose") => (ENABLED ChooseAgain /\ ENABLED ChooseEnter)]_vars

\* C12 witness: Running has just been entered for the first time, from a selection
\* in which clicks and 'R' have left live cells on a 3x3 grid.
C12_Witness ==
    /\ pc = "run" /\ gen_cells = <<>> /\ ~updated /\ update_timer = 0
    /\ speed = Frac(DEFAULT_SPEED, 1)
    /\ game.ncols = 3 /\ game.nrows = 3
    /\ ~AllDead(game.cells)

\* C13: update() is started in a loop iteration only if paused is false in it and
\* the timer, accumulated by this frame's time, has reached 1 / speed; the step that
\* completes update() leaves the timer at 0; an iteration in which paused is true
\* leaves the grid and the timer as they were (its menu may still restart the game,
\* which clears the grid but not the timer); and in the run loop the grid changes
\* only by a completed update() or by a restart.
C13_UpdateGate ==
    [][/\ (pc = "run" /\ pc' = "update") =>
             /\ ~paused'
             /\ \E frame_time \in FrameTimes : update_timer' = update_timer + frame_time
             /\ update_timer' * speed'.n >= TicksPerSecond * speed'.d
       /\ (pc' = "update") => (pc \in {"run", "update"})
       /\ (last_op' = "update") => (pc = "update" /\ ~paused /\ update_timer' = 0)
       /\ (pc = "run" /\ paused') =>
             (pc' = "menu" /\ game' = game /\ update_timer' = update_timer)
       /\ (pc = "menu" /\ paused) =>
             /\ ~updated /\ game.cells = gen_cells
             /\ update_timer' = update_timer
             /\ game' = game \/ last_op' = "restart"
       /\ (InRunLoop /\ game' # game) => (last_op' \in {"update", "restart"})]_vars

\* C13 witness: update() has just run on a 3x3 grid that had live cells, the game
\* not paused and the timer back at 0.
C13_Witness ==
    /\ JustUpdated /\ ~paused /\ update_timer = 0 /\ last_op = "update"
    /\ game.ncols = 3 /\ game.nrows = 3
    /\ ~AllDead(gen_cells)

\* speed * 1.5 and speed / 1.5 as fractions, and the two limits.
TimesOneAndHalf(s) == Frac(3 * s.n, 2 * s.d)
OverOneAndHalf(s) == Frac(2 * s.n, 3 * s.d)
AtMostThousand(s) == s.n <= 1000 * s.d
AtLeastTenth(s) == s.d <= 10 * s.n

\* What one press of Up, and one of Down, makes of the speed s.
AfterUp(s) == IF AtMostThousand(TimesOneAndHalf(s)) THEN TimesOneAndHalf(s) ELSE Frac(1000, 1)
AfterDown(s) == IF AtLeastTenth(OverOneAndHalf(s)) THEN OverOneAndHalf(s) ELSE Frac(1, 10)

\* C14: speed is 10 when Running is first entered; check_keys leaves it as it was or
\* sets it to min(speed * 1.5, 1000) on Up and then to max(speed / 1.5, 0.1) on Down,
\* and no other step changes it; whatever the presses, it stays within [0.1, 1000],
\* so that the tick interval 1 / speed is a positive finite number.
C14_SpeedClamped ==
    [][/\ (FirstSelection /\ pc' = "run") => (speed' = Frac(10, 1))
       /\ (pc = "run") =>
             \E up \in BOOLEAN, down \in BOOLEAN :
                LET s1 == IF up THEN AfterUp(speed) ELSE speed IN
                speed' = IF down THEN AfterDown(s1) ELSE s1
       /\ (pc # "run" /\ ~FirstSelection) => (speed' = speed)
       /\ AtLeastTenth(speed') /\ AtMostThousand(speed')
       /\ speed'.n > 0 /\ speed'.d > 0]_vars

\* C14 witness: Down presses have taken the speed from 10 to the lower limit, which
\* only the clamp gives (10 / 1.5^k is never 0.1), and an Up press to 0.15 from there.
C14_Witness ==
    /\ InRunLoop /\ speed = Frac(3, 20)

\* C15: the step that handles the Restart press leaves every cell dead, the
\* dimensions as they were and the game in the selection of the initial state; and
\* the rest of that frame, in which the only click is the one that pressed Restart,
\* toggles no cell (the grid stays all-dead unless 'R' is pressed).
C15_RestartAllDead ==
    [][/\ (last_op' = "restart") =>
             /\ pc = "menu" /\ pc' = "choose_body"
             /\ AllDead(game'.cells)
             /\ game'.ncols = game.ncols /\ game'.nrows = game.nrows
             /\ game'.cell_size = game.cell_size
       /\ (last_op = "restart") =>
             (AllDead(game'.cells) \/ last_op' = "randomize")]_vars

\* The pixel (px, py) lies in the grid's pixel area.
InPixelArea(g, px, py) ==
    /\ 0 <= px /\ px < g.ncols * g.cell_size
    /\ 0 <= py /\ py < g.nrows * g.cell_size

\* C16: a click at a pixel of the grid's area toggles the cell (px / cell_size,
\* py / cell_size) and no other; a click at any other pixel, negative coordinates
\* included, changes no cell.
C16_ClickToCell ==
    result = "Ok" =>
        \A px \in MousePixels : \A py \in MousePixels :
            toggle_cell_state(game, <<px, py>>) =
                IF InPixelArea(game, px, py)
                THEN [game EXCEPT !.cells[(px \div game.cell_size) + 1][(py \div game.cell_size) + 1] =
                                       ~game.cells[(px \div game.cell_size) + 1][(py \div game.cell_size) + 1]]
                ELSE game

\* C17: drawing leaves the cells as they are: in a step that has drawn and done
\* nothing else to the grid, draw_grid, draw_cells and draw_menu each handed back the
\* Game they were given; and no step changes a cell other than one that toggles,
\* randomizes, completes update() (then to next_cells) or restarts.
C17_DrawKeepsCells ==
    [][/\ (pc \in {"choose_body", "menu"} /\ last_op' = "none") =>
             /\ draw_grid(game).game = game
             /\ draw_cells(game).game = game
             /\ \A button \in {"none", "restart", "pause"} :
                   draw_menu(game, paused, button).game = game
             /\ game' = game
       /\ (game' # game) => (last_op' \in {"toggle", "randomize", "update", "restart"})
       /\ (pc = "update" /\ game' # game) => (game'.cells = next_cells)]_vars

\* C17 witness: an iteration of the run loop has ended with the menu open, its menu,
\* its grid lines and the live cells of a 3x3 grid drawn.
C17_Witness ==
    /\ pc = "run" /\ show_menu /\ update_timer > 0
    /\ game.ncols = 3 /\ game.nrows = 3
    /\ draw_cells(game).rectangles # {}

\* The step each place of the adapter takes next is enabled there.
AdapterCanStep ==
    /\ (pc = "start_menu") => ENABLED ShowStartMenuEnter
    /\ (pc = "choose_body") => ENABLED ChooseBody
    /\ (pc = "choose") => (ENABLED ChooseAgain /\ ENABLED ChooseEnter)
    /\ (pc = "run") => ENABLED RunKeys
    /\ (pc = "update") => ENABLED (UpdateCell \/ UpdateCommit)
    /\ (pc = "menu") => ENABLED RunMenu

\* C18: the adapter has no terminal state: once a Game is constructed, run() is in
\* the start menu, the selection or the run loop, never past its end, and in each of
\* them, paused or not, menu open or not, the next step is enabled; and no step
\* enters the start menu again.
C18_NoTerminalState ==
    /\ [](result = "Ok" => (pc # "exit" /\ AdapterCanStep))
    /\ [][(pc' = "start_menu") => (pc = "start_menu")]_vars

\* C18 witness: after a restart from the open menu the game is in the selection
\* again (not in the start menu), a click having toggled a cell there.
C18_Witness ==
    /\ pc = "choose" /\ restart /\ last_op = "toggle"
    /\ game.ncols = 3 /\ game.nrows = 3

\* C19: in Running, check_keys flips paused exactly when Space is pressed and
\* show_menu exactly when 'M' is, and sets no restart; paused changes in no other
\* step than check_keys, the menu step of an iteration whose menu is open (the Pause
\* button) and the end of a restart; a restart starts only in the menu step of an
\* iteration whose menu is open; and with the menu closed that step changes nothing.
C19_KeysAndMenu ==
    [][/\ (pc = "run") =>
             /\ \A space \in BOOLEAN, m \in BOOLEAN :
                   LET k == check_keys(paused, speed, show_menu, space, FALSE, FALSE, m) IN
                   /\ k.paused = (paused # space)
                   /\ k.show_menu = (show_menu # m)
             /\ restart' = restart /\ last_op' # "restart" /\ pc' \in {"update", "menu"}
       /\ (paused' # paused) =>
             \/ pc = "run"
             \/ pc = "menu" /\ show_menu /\ ~restart'
             \/ pc = "choose" /\ restart /\ pc' = "run" /\ ~paused'
       /\ (show_menu' # show_menu) =>
             \/ pc = "run"
             \/ pc = "choose" /\ restart /\ pc' = "run" /\ ~show_menu'
       /\ (restart' /\ ~restart) => (pc = "menu" /\ show_menu /\ last_op' = "restart")
       /\ (last_op' = "restart") => (pc = "menu" /\ show_menu /\ restart')
       /\ (pc = "menu" /\ ~show_menu) =>
             (pc' = "run" /\ paused' = paused /\ ~restart' /\ game' = game)]_vars

\* C19 witness: Space and 'M' have been pressed: an iteration of the run loop is at
\* its menu step, paused and with the menu open, live cells on the grid.
C19_Witness ==
    /\ pc = "menu" /\ paused /\ show_menu /\ ~restart
    /\ ~AllDead(game.cells)

RECURSIVE TwoToThe(_)
TwoToThe(k) == IF k = 0 THEN 1 ELSE 2 * TwoToThe(k - 1)

\* C20: where the selection polls 'R', every configuration of the grid's dimensions
\* is the outcome of some randomize step, whatever the grid holds: there are
\* 2^(nrows*ncols) of them, and they are the same from the grid as it is and from the
\* all-dead and the all-live grid of its dimensions.
C20_RandomizeAnyGrid ==
    (result = "Ok" /\ pc = "choose_body") =>
        /\ \A c \in [1 .. game.ncols -> [1 .. game.nrows -> BOOLEAN]] :
              ENABLED (ChooseBody /\ last_op' = "randomize" /\ game'.cells = c)
        /\ Cardinality(randomize(game)) = TwoToThe(game.nrows * game.ncols)
        /\ randomize(game) = randomize([game EXCEPT !.cells = DeadCells(game.ncols, game.nrows)])
        /\ randomize(game) =
              randomize([game EXCEPT !.cells = [x \in 1 .. game.ncols |-> [y \in 1 .. game.nrows |-> TRUE]]])

\* C20 witness: 'R' has just left a 2x2 grid with two live cells on a diagonal, and
\* the selection goes on from it.
C20_Witness ==
    /\ pc = "choose" /\ last_op = "randomize"
    /\ game.ncols = 2 /\ game.nrows = 2
    /\ game.cells = <<<<TRUE, FALSE>>, <<FALSE, TRUE>>>>

\* C21: in the run loop no input changes the grid: the step that polls the keys
\* leaves the Game as it is, the steps of update() leave it until the last one, which
\* assigns next_cells, and the menu step leaves it or, on a restart, clears it; so
\* the cells change there only by update() or by a restart.
C21_RunLoopCells ==
    [][/\ (pc = "run") => (game' = game)
       /\ (pc = "update" /\ last_op' # "update") => (game' = game)
       /\ (pc = "update" /\ last_op' = "update") => (game'.cells = next_cells)
       /\ (pc = "menu" /\ last_op' # "restart") => (game' = game)
       /\ (pc = "menu" /\ last_op' = "restart") =>
             (game'.cells = DeadCells(game.ncols, game.nrows))
       /\ InRunLoop => (last_op' \notin {"toggle", "click_outside", "randomize"})]_vars

\* C21 witness: an unpaused iteration of the run loop on a 3x3 grid has ended
\* without update(): the live cells are those the iteration began with.
C21_Witness ==
    /\ pc = "menu" /\ ~updated /\ ~paused /\ update_timer > 0
    /\ game.ncols = 3 /\ game.nrows = 3
    /\ game.cells = gen_cells /\ ~AllDead(game.cells)

\* C22: the step that completes a restart, back into the run loop, leaves paused and
\* show_menu false whatever they were (the menu was open, the game perhaps paused);
\* and from the menu step that starts the restart to that last step, the selection
\* in between included, no step changes speed or the update timer.
C22_RestartResumes ==
    [][/\ (restart /\ pc' = "run") =>
             /\ pc = "choose" /\ show_menu
             /\ ~paused' /\ ~show_menu' /\ ~restart'
       /\ (restart \/ restart') =>
             (speed' = speed /\ update_timer' = update_timer)
       /\ (restart /\ pc' # "run") =>
             (restart' /\ Choosing' /\ paused' = paused /\ show_menu' = show_menu)]_vars

\* C22 witness: a restart from a paused game whose speed had been changed and whose
\* timer was part-way: the selection of the restart, a cell toggled, is at the point
\* where Enter completes it, paused and show_menu still as before the restart.
C22_Witness ==
    /\ pc = "choose" /\ restart /\ paused /\ show_menu
    /\ speed # Frac(DEFAULT_SPEED, 1) /\ update_timer > 0
    /\ ~AllDead(game.cells)
    /\ ENABLED ChooseEnter

\* C23: an iteration of the run loop advances at most one generation: it begins with
\* no update() done; the step that completes update() is the first of its iteration,
\* belongs to an unpaused iteration whose timer had reached the interval, by however
\* much, and leaves the timer at 0 and only the menu step to come; and the menu step
\* ends the iteration, starting no update().
C23_OneGenerationPerIteration ==
    [][/\ (pc = "run") => (~updated /\ (pc' = "update" => ~paused'))
       /\ (last_op' = "update") =>
             /\ pc = "update" /\ ~updated /\ updated' /\ ~paused
             /\ update_timer * speed.n >= TicksPerSecond * speed.d
             /\ update_timer' = 0 /\ pc' = "menu"
       /\ (pc = "update" /\ last_op' # "update") => (pc' = "update" /\ ~updated')
       /\ updated => (pc = "menu")
       /\ (pc = "menu") => (pc' \in {"run", "choose_body"} /\ ~updated')]_vars

\* C23 witness: update() is at its end in an iteration whose timer holds at least
\* twice the interval 1 / speed; it is the only update() of the iteration.
C23_Witness ==
    /\ pc = "update" /\ upd_x >= game.ncols /\ ~updated
    /\ update_timer * speed.n >= 2 * TicksPerSecond * speed.d
    /\ ~AllDead(game.cells)

\* C24: the open menu does not hold the simulation: at the top of an iteration the
\* timer runs exactly when the game is not paused, menu open or not, and update() is
\* started exactly when, not paused, the timer has reached 1 / speed; and with the
\* menu open update() goes through to its end and assigns the new generation.
C24_MenuDoesNotPause ==
    [][/\ (pc = "run") =>
             /\ paused' => (update_timer' = update_timer)
             /\ ~paused' => (update_timer' > update_timer)
             /\ (pc' = "update") <=>
                   (~paused' /\ update_timer' * speed'.n >= TicksPerSecond * speed'.d)
       /\ (pc = "update" /\ show_menu) =>
             /\ show_menu' /\ ~paused'
             /\ (last_op' = "update") => (game'.cells = next_cells /\ pc' = "menu")
             /\ (last_op' # "update") => (pc' = "update")]_vars

\* C24 witness: with the menu open and the game not paused, update() has just given
\* a 3x3 grid a generation that differs from the one before.
C24_Witness ==
    /\ JustUpdated /\ show_menu /\ ~paused
    /\ game.ncols = 3 /\ game.nrows = 3
    /\ game.cells # gen_cells

\* C25: nothing done in the start menu or in the first selection of the initial
\* state reaches the locals of the run loop: every step taken there, the one that
\* enters Running included, leaves paused false, show_menu false, restart false,
\* speed 10 and the update timer 0, and only steps of the selection change the grid.
C25_FirstEntryDefaults ==
    [][FirstSelection =>
          /\ ~paused' /\ ~show_menu' /\ ~restart'
          /\ speed' = [n |-> 10, d |-> 1]
          /\ update_timer' = 0
          /\ FirstSelection' \/ (pc = "choose" /\ pc' = "run" /\ game' = game)
          /\ (pc = "start_menu") => (game' = game)]_vars

\* C25 witness: Running is entered for the first time, after a selection that went
\* round at least once and left live cells: the locals of run() have their first
\* values and no iteration has begun.
C25_Witness ==
    /\ pc = "run" /\ ~paused /\ ~show_menu /\ ~restart
    /\ speed = [n |-> 10, d |-> 1] /\ update_timer = 0
    /\ gen_cells = <<>> /\ ~updated /\ last_op = "none"
    /\ ~AllDead(game.cells)

====
